---- MODULE Spec2Model ----
(***************************************************************************)
(* File-processing pipeline of the AITHENA task solver.                    *)
(*                                                                         *)
(* The module models src/src/aithena_task_solver.py::process_file and the  *)
(* services it calls (LicenseDetector.get_license_type,                    *)
(* extract_copyright_holder, FunctionCounter.count_functions,              *)
(* extract_functions_with_args, LlmClient.rewrite_to_rust,                 *)
(* save_rust_code, save_result_to_json).  The LLM gateway and the file     *)
(* system are the environment: every gateway call nondeterministically     *)
(* raises or returns a text, every file write nondeterministically         *)
(* succeeds or fails.                                                      *)
(***************************************************************************)
EXTENDS Integers, Sequences, FiniteSets, TLC

(***************************************************************************)
(* Bounds of the model.                                                    *)
(***************************************************************************)
\* longest JSON array the gateway stub answers to a signature extraction
MaxFuncs == 3
\* largest function_count the gateway stub answers
MaxCount == 4

(***************************************************************************)
(* Python / JSON values.  json.loads yields exactly these shapes; a Python *)
(* bool is an int (isinstance(True, int) holds), so it is kept distinct    *)
(* from an int and converted by AsInt where the code compares it.          *)
(***************************************************************************)
PNone == [t |-> "null"]
PStr(s) == [t |-> "str", s |-> s]
PInt(n) == [t |-> "int", n |-> n]
PBool(b) == [t |-> "bool", b |-> b]
PObj(o) == [t |-> "obj", o |-> o]
PArr(a) == [t |-> "arr", a |-> a]
\* a text that json.loads rejects with JSONDecodeError (the empty text included)
NotJson == [t |-> "notjson"]

\* dict.get(key, default)
Get(o, key, default) == IF key \in DOMAIN o THEN o[key] ELSE default

\* isinstance(v, int): ints and bools
IsInstanceInt(v) == v.t \in {"int", "bool"}

\* the integer a Python int or bool compares as
AsInt(v) == IF v.t = "bool" THEN (IF v.b THEN 1 ELSE 0) ELSE v.n

\* outcome of a call: a returned value or a raised exception
Ok(v) == [ok |-> TRUE, val |-> v]
Err(e) == [ok |-> FALSE, exc |-> e]

(***************************************************************************)
(* LLM gateway: generate_response either raises or returns a text.  The    *)
(* text is represented by what json.loads makes of it.                     *)
(***************************************************************************)
Raise(e) == [kind |-> "raise", exc |-> e]
Text(body) == [kind |-> "text", body |-> body]

\* exceptions generate_response can raise: the declared LLMClientError, or
\* any other exception (AnthropicClient only converts AnthropicError)
GatewayFailures == {Raise("LLMClientError"), Raise("OtherError")}

\* texts that are malformed for every service: not JSON, or JSON of the
\* wrong top-level shape
MalformedTexts == {Text(NotJson), Text(PInt(7))}

LicenseType == {"PERMISSIVE", "COPYLEFT", "PROPRIETARY", "UNKNOWN"}

(***************************************************************************)
(* Answers of the gateway stub, per service.                               *)
(***************************************************************************)
LicenseTypeAnswers ==
    {PStr("PERMISSIVE"), PStr("COPYLEFT"), PStr("PROPRIETARY"), PStr("UNKNOWN"),
     PStr("permissive"), PNone}
LicenseNameAnswers == {PStr("GNU GPL v3"), PStr(""), PNone}
EmptyObject == [k \in {} |-> PNone]
LicenseObjects ==
    {[license_type |-> x, license_name |-> y] :
        x \in LicenseTypeAnswers, y \in LicenseNameAnswers}
    \cup {[license_type |-> x] : x \in LicenseTypeAnswers}
    \cup {[license_name |-> y] : y \in LicenseNameAnswers}
    \cup {EmptyObject}
LicenseResponses ==
    GatewayFailures \cup MalformedTexts \cup {Text(PObj(o)) : o \in LicenseObjects}

CopyrightAnswers == {PStr("Elon Musk"), PNone}
CopyrightResponses ==
    GatewayFailures \cup MalformedTexts
    \cup {Text(PObj([copyright_holder |-> x])) : x \in CopyrightAnswers}
    \cup {Text(PObj(EmptyObject))}

CountAnswers ==
    {PInt(n) : n \in (-1)..MaxCount} \cup {PBool(TRUE), PStr("2"), PNone}
CountResponses ==
    GatewayFailures \cup MalformedTexts
    \cup {Text(PObj([function_count |-> x])) : x \in CountAnswers}
    \cup {Text(PObj(EmptyObject))}

\* entries the stub may put in a signature array: two well-formed ones, one
\* with an empty name, one with a negative arg_count, one without arg_count,
\* and one that is not an object
SignatureItems ==
    {PObj([name |-> PStr("foo"), arg_count |-> PInt(0)]),
     PObj([name |-> PStr("bar"), arg_count |-> PInt(1)]),
     PObj([name |-> PStr(""), arg_count |-> PInt(0)]),
     PObj([name |-> PStr("baz"), arg_count |-> PInt(-1)]),
     PObj([name |-> PStr("baz")]),
     PInt(3)}
SeqsUpTo(S, n) == UNION {[1..k -> S] : k \in 0..n}
SignatureResponses ==
    GatewayFailures \cup {Text(NotJson), Text(PObj(EmptyObject))}
    \cup {Text(PArr(a)) : a \in SeqsUpTo(SignatureItems, MaxFuncs)}

\* rewrite_to_rust returns the text as it is; OpenAIClient.generate_response
\* returns "" when the provider answers without content
TranslationResponses ==
    GatewayFailures \cup {Text(PStr("fn foo() {} fn bar() {}")), Text(PStr(""))}

(***************************************************************************)
(* LicenseDetector.get_license_type: never raises; <<license_type,         *)
(* license_name>>.                                                         *)
(***************************************************************************)
\* a conversion that ignores the case of the answer
LicenseTypeOf_IgnoreCase(license_type_str) ==
    IF license_type_str \in {PStr("PERMISSIVE"), PStr("permissive")} THEN "PERMISSIVE"
    ELSE IF license_type_str = PStr("COPYLEFT") THEN "COPYLEFT"
    ELSE IF license_type_str = PStr("PROPRIETARY") THEN "PROPRIETARY"
    ELSE "UNKNOWN"

LicenseTypeOf(license_type_str) ==
    IF license_type_str = PStr("PERMISSIVE") THEN "PERMISSIVE"
    ELSE IF license_type_str = PStr("COPYLEFT") THEN "COPYLEFT"
    ELSE IF license_type_str = PStr("PROPRIETARY") THEN "PROPRIETARY"
    ELSE "UNKNOWN"

LicenseFallback == <<"UNKNOWN", PStr("Unknown License")>>

get_license_type(resp) ==
    IF resp.kind = "raise" THEN LicenseFallback            \* except Exception
    ELSE IF resp.body = NotJson THEN LicenseFallback       \* JSONDecodeError
    ELSE IF resp.body.t # "obj" THEN LicenseFallback       \* AttributeError on .get
    ELSE <<LicenseTypeOf(Get(resp.body.o, "license_type", PStr("UNKNOWN"))),
           Get(resp.body.o, "license_name", PStr("Unknown License"))>>

(***************************************************************************)
(* extract_copyright_holder: never raises.                                 *)
(***************************************************************************)
CopyrightFallback == PStr("Unknown")

\* a fallback that hands back None instead of "Unknown" when the gateway raises
extract_copyright_holder_NoneOnRaise(resp) ==
    IF resp.kind = "raise" THEN PNone
    ELSE IF resp.body = NotJson THEN CopyrightFallback
    ELSE IF resp.body.t # "obj" THEN CopyrightFallback
    ELSE Get(resp.body.o, "copyright_holder", PStr("Unknown"))

extract_copyright_holder(resp) ==
    IF resp.kind = "raise" THEN CopyrightFallback
    ELSE IF resp.body = NotJson THEN CopyrightFallback
    ELSE IF resp.body.t # "obj" THEN CopyrightFallback
    ELSE Get(resp.body.o, "copyright_holder", PStr("Unknown"))

(***************************************************************************)
(* FunctionCounter.count_functions: the validated count or                 *)
(* FunctionCounterError.                                                   *)
(***************************************************************************)
ValidCount(function_count) ==
    /\ function_count # PNone
    /\ IsInstanceInt(function_count)
    /\ AsInt(function_count) >= 0

\* a counter that answers 0 instead of raising when the gateway raises
count_functions_ZeroOnRaise(resp) ==
    IF resp.kind = "raise" THEN Ok(PInt(0))
    ELSE IF resp.body = NotJson THEN Err("FunctionCounterError")
    ELSE IF resp.body.t # "obj" THEN Err("FunctionCounterError")
    ELSE LET function_count == Get(resp.body.o, "function_count", PNone)
         IN  IF ValidCount(function_count) THEN Ok(function_count)
             ELSE Err("FunctionCounterError")

count_functions(resp) ==
    IF resp.kind = "raise" THEN Err("FunctionCounterError")
    ELSE IF resp.body = NotJson THEN Err("FunctionCounterError")
    ELSE IF resp.body.t # "obj" THEN Err("FunctionCounterError")
    ELSE LET function_count == Get(resp.body.o, "function_count", PNone)
         IN  IF ValidCount(function_count) THEN Ok(function_count)
             ELSE Err("FunctionCounterError")

(***************************************************************************)
(* extract_functions_with_args: the list of FunctionInfo or                *)
(* TaskSolverError.                                                        *)
(***************************************************************************)
FunctionInfo(name, arg_count) == [name |-> name, arg_count |-> arg_count]

ValidItem(item) ==
    /\ item.t = "obj"                                      \* else AttributeError
    /\ LET name == Get(item.o, "name", PNone)
           arg_count == Get(item.o, "arg_count", PNone)
       IN  /\ name # PNone
           /\ name.t = "str"
           /\ arg_count # PNone
           /\ IsInstanceInt(arg_count)
           /\ AsInt(arg_count) >= 0

RECURSIVE ParseItems(_, _)
ParseItems(items, functions) ==
    IF items = <<>> THEN Ok(functions)
    ELSE IF ~ValidItem(Head(items)) THEN Err("TaskSolverError")
    ELSE ParseItems(Tail(items),
                    Append(functions,
                           FunctionInfo(Head(items).o.name, Head(items).o.arg_count)))

extract_functions_with_args(resp) ==
    IF resp.kind = "raise" THEN Err("TaskSolverError")
    ELSE IF resp.body = NotJson THEN Err("TaskSolverError")
    ELSE IF resp.body.t # "arr" THEN Err("TaskSolverError")
    ELSE ParseItems(resp.body.a, <<>>)

(***************************************************************************)
(* LlmClient.rewrite_to_rust: the text of generate_response, or its        *)
(* exception.                                                              *)
(***************************************************************************)
rewrite_to_rust(resp) ==
    IF resp.kind = "raise" THEN Err(resp.exc) ELSE Ok(resp.body)

(***************************************************************************)
(* Result writer of the task solver.                                       *)
(***************************************************************************)
\* file names are kept as their dot-separated components: "1.py" is <<"1", "py">>
FileNames == {<<"1", "py">>, <<"2", "py">>, <<"README">>}

\* Path(file_name).stem: the name without its last suffix
Stem(file_name) ==
    IF Len(file_name) > 1 THEN SubSeq(file_name, 1, Len(file_name) - 1)
    ELSE file_name

\* os.path.join(output_dir, f"{stem}_{suffix}.{extension}")
OutputPath(output_dir, file_name, suffix, extension) ==
    [dir |-> output_dir, stem |-> Stem(file_name), suffix |-> suffix,
     extension |-> extension]

\* a result_dict that always carries the optional keys, null when unset
ResultDict_NullOptionals(result) ==
    [k \in {"file_name", "copyright_holder", "license_name", "license_type",
            "function_count", "functions"} |->
        CASE k = "file_name" -> PStr(result.file_name)
          [] k = "copyright_holder" -> result.copyright_holder
          [] k = "license_name" -> result.license_name
          [] k = "license_type" -> PStr(result.license_type)
          [] k = "function_count" -> result.function_count
          [] k = "functions" ->
                IF result.functions = PNone THEN PNone
                ELSE PArr([i \in DOMAIN result.functions.a |->
                            PObj([name |-> result.functions.a[i].name,
                                  arg_count |-> result.functions.a[i].arg_count])])]

\* result_dict of save_result_to_json: the optional keys only when set
ResultDict(result) ==
    LET keys == {"file_name", "copyright_holder", "license_name", "license_type"}
                \cup (IF result.function_count # PNone THEN {"function_count"} ELSE {})
                \cup (IF result.functions # PNone THEN {"functions"} ELSE {})
    IN  [k \in keys |->
            CASE k = "file_name" -> PStr(result.file_name)
              [] k = "copyright_holder" -> result.copyright_holder
              [] k = "license_name" -> result.license_name
              [] k = "license_type" -> PStr(result.license_type)   \* .name
              [] k = "function_count" -> result.function_count
              [] k = "functions" ->
                    PArr([i \in DOMAIN result.functions.a |->
                            PObj([name |-> result.functions.a[i].name,
                                  arg_count |-> result.functions.a[i].arg_count])])]

JsonFile(data) == [t |-> "json", data |-> data]
TextFile(text) == [t |-> "text", text |-> text]
\* what open(path, 'w') leaves behind when the write after it fails
TruncatedFile == [t |-> "truncated"]

\* outcomes of one save: success, Path.mkdir raising, open raising, or the
\* write raising after open has truncated the file
IoOutcomes == {"ok", "mkdir_error", "open_error", "write_error"}

\* a writer that opens an existing file in append mode
Write_Append(fs, path, content, io) ==
    IF io \in {"mkdir_error", "open_error"} THEN fs
    ELSE [p \in DOMAIN fs \cup {path} |->
            IF p = path
            THEN (IF io # "ok" THEN TruncatedFile
                  ELSE IF path \in DOMAIN fs
                       THEN [t |-> "appended", old |-> fs[path], new |-> content]
                       ELSE content)
            ELSE fs[p]]

\* the file system after a save of content to path with outcome io
Write(fs, path, content, io) ==
    IF io \in {"mkdir_error", "open_error"} THEN fs
    ELSE [p \in DOMAIN fs \cup {path} |->
            IF p = path THEN (IF io = "ok" THEN content ELSE TruncatedFile)
            ELSE fs[p]]

\* save_result_to_json and save_rust_code: the path, or the exception
save_result_to_json(result, output_dir, io) ==
    IF io = "ok" THEN Ok(OutputPath(output_dir, result.file_name, "analysis", "json"))
    ELSE IF io = "mkdir_error" THEN Err("OSError")
    ELSE Err("TaskSolverError")

save_rust_code(file_name, rust_code, output_dir, io) ==
    IF io = "ok" THEN Ok(OutputPath(output_dir, file_name, "rust_functions", "rs"))
    ELSE IF io = "mkdir_error" THEN Err("OSError")
    ELSE Err("TaskSolverError")

(***************************************************************************)
(* process_file.                                                           *)
(***************************************************************************)
VARIABLES
    pc,            \* position in process_file
    file_name,     \* argument file_name
    license,       \* locals <<license_type, license_name>>
    result,        \* local result: the FileAnalysisResult, PNone before line 314
    saved_files,   \* local saved_files
    disk,          \* the files of the output directory: path -> content
    invoked,       \* the service calls made by this run, in order, each with
                   \* whether the gateway raised or returned a text
    written,       \* the paths this run opened for writing, in order
    outcome,       \* PNone while running, then Ok(<<result, saved_files>>) or Err
    probe,         \* the service call under test: service, gateway answer, outcome
    saver_fs,      \* ResultSaver: the directories that exist and the files in them
    saved,         \* ResultSaver: the last save call and its outcome
    main_pc,       \* position in main of main_async.py
    data_dir,      \* the data directory main was given
    tasks,         \* the process_file_async tasks of the batch, in glob order
    results,       \* what asyncio.gather returned, PNone before
    main_outcome,  \* PNone while main runs, then Ok(summary) or Err
    stub,          \* the deterministic gateway stub of a repeated run, PNone without
    first,         \* the end of the first run when a second one follows, PNone before
    safety_results,\* _safety_results of agents/safety_checker.py: hash -> verdict
    calls,         \* the check_content_safety call of each thread
    produced,      \* the verdicts the safety agent has produced: <<content, verdict>>
    ncalls         \* the check_content_safety calls started so far

pipeline_vars ==
    <<pc, file_name, license, result, saved_files, disk, invoked, written, outcome>>

service_vars == <<probe>>
saver_vars == <<saver_fs, saved>>
batch_vars == <<main_pc, data_dir, tasks, results, main_outcome>>
rerun_vars == <<stub, first>>
safety_vars == <<safety_results, calls, produced, ncalls>>

\* the state of the components process_file does not touch
other_vars == <<service_vars, saver_vars, batch_vars, rerun_vars, safety_vars>>

vars == <<pipeline_vars, other_vars>>

NoProbe == [service |-> "none"]
NoCall == [op |-> "none"]

\* the threads that call check_content_safety, and the calls they make in all
MaxThreads == 2
MaxCalls == 3
Threads == 1..MaxThreads
IdleCall == [op |-> "none", pc |-> "idle"]
NoVerdicts == [h \in {} |-> [op |-> "none"]]

\* output_dir = "results" (line 299)
output_dir == "results"

NoFiles == [p \in {} |-> PNone]
PList(a) == [t |-> "list", a |-> a]

\* FileAnalysisResult(...) of line 314: the optional fields default to None
FileAnalysisResult(fn, copyright_holder, license_name, license_type) ==
    [file_name |-> fn, copyright_holder |-> copyright_holder,
     license_name |-> license_name, license_type |-> license_type,
     function_count |-> PNone, functions |-> PNone, rust_code |-> PNone]

\* a branch that treats every classified non-copyleft license as permissive
LicenseBranch_ProprietaryExtracts(license_type) ==
    IF license_type = "COPYLEFT" THEN "count"
    ELSE IF license_type = "UNKNOWN" THEN "save_json"
    ELSE "extract"

\* the branch on license_type (lines 322, 326)
LicenseBranch(license_type) ==
    IF license_type = "PERMISSIVE" THEN "extract"
    ELSE IF license_type = "COPYLEFT" THEN "count"
    ELSE "save_json"

\* a threshold off by one: two functions already go to extraction
CountBranch_OffByOne(function_count) ==
    IF AsInt(function_count) >= 2 THEN "extract" ELSE "translate"

\* the branch on function_count (line 331)
CountBranch(function_count) ==
    IF AsInt(function_count) > 2 THEN "extract" ELSE "translate"

\* one entry of the call history
Invocation(service, resp) == [service |-> service, gateway |-> resp.kind]

\* except Exception as e: raise TaskSolverError(...) (lines 349-350)
RaiseTaskSolverError(step) ==
    /\ pc' = "raised"
    /\ outcome' = [ok |-> FALSE, exc |-> "TaskSolverError", step |-> step]

Init ==
    /\ pc = "idle"
    /\ file_name = <<>>
    /\ license = PNone
    /\ result = PNone
    /\ saved_files = <<>>
    /\ disk = NoFiles
    /\ invoked = <<>>
    /\ written = <<>>
    /\ outcome = PNone
    /\ probe = NoProbe
    /\ saver_fs = [dirs |-> {}, files |-> NoFiles]
    /\ saved = NoCall
    /\ main_pc = "idle"
    /\ data_dir = PNone
    /\ tasks = <<>>
    /\ results = PNone
    /\ main_outcome = PNone
    /\ stub = PNone
    /\ first = PNone
    /\ safety_results = NoVerdicts
    /\ calls = [t \in Threads |-> IdleCall]
    /\ produced = {}
    /\ ncalls = 0

\* the call process_file(llm_client, fn, file_content)
Call(fn) ==
    /\ pc = "idle"
    /\ pc' = "license"
    /\ file_name' = fn
    /\ saved_files' = <<>>
    /\ UNCHANGED <<license, result, disk, invoked, written, outcome>>
    /\ UNCHANGED other_vars

\* line 308
DetectLicense(resp) ==
    /\ pc = "license"
    /\ license' = get_license_type(resp)
    /\ invoked' = Append(invoked, Invocation("get_license_type", resp))
    /\ pc' = "copyright"
    /\ UNCHANGED <<file_name, result, saved_files, disk, written, outcome>>
    /\ UNCHANGED other_vars

\* lines 311-322
ExtractCopyright(resp) ==
    /\ pc = "copyright"
    /\ result' = FileAnalysisResult(file_name, extract_copyright_holder(resp),
                                    license[2], license[1])
    /\ invoked' = Append(invoked, Invocation("extract_copyright_holder", resp))
    /\ pc' = LicenseBranch(license[1])
    /\ UNCHANGED <<file_name, license, saved_files, disk, written, outcome>>
    /\ UNCHANGED other_vars

\* lines 328-331
CountFunctions(resp) ==
    /\ pc = "count"
    /\ invoked' = Append(invoked, Invocation("count_functions", resp))
    /\ LET r == count_functions(resp)
       IN  IF r.ok
           THEN /\ result' = [result EXCEPT !.function_count = r.val]
                /\ pc' = CountBranch(r.val)
                /\ UNCHANGED outcome
           ELSE /\ RaiseTaskSolverError("count_functions")
                /\ UNCHANGED result
    /\ UNCHANGED <<file_name, license, saved_files, disk, written>>
    /\ UNCHANGED other_vars

\* lines 324 and 333
ExtractFunctions(resp) ==
    /\ pc = "extract"
    /\ invoked' = Append(invoked, Invocation("extract_functions_with_args", resp))
    /\ LET r == extract_functions_with_args(resp)
       IN  IF r.ok
           THEN /\ result' = [result EXCEPT !.functions = PList(r.val)]
                /\ pc' = "save_json"
                /\ UNCHANGED outcome
           ELSE /\ RaiseTaskSolverError("extract_functions_with_args")
                /\ UNCHANGED result
    /\ UNCHANGED <<file_name, license, saved_files, disk, written>>
    /\ UNCHANGED other_vars

\* lines 336-337
RewriteToRust(resp) ==
    /\ pc = "translate"
    /\ invoked' = Append(invoked, Invocation("rewrite_to_rust", resp))
    /\ LET r == rewrite_to_rust(resp)
       IN  IF r.ok
           THEN /\ result' = [result EXCEPT !.rust_code = r.val]
                /\ pc' = "save_rust"
                /\ UNCHANGED outcome
           ELSE /\ RaiseTaskSolverError("rewrite_to_rust")
                /\ UNCHANGED result
    /\ UNCHANGED <<file_name, license, saved_files, disk, written>>
    /\ UNCHANGED other_vars

\* lines 340-341
SaveRustCode(io) ==
    /\ pc = "save_rust"
    /\ LET path == OutputPath(output_dir, file_name, "rust_functions", "rs")
           r == save_rust_code(file_name, result.rust_code, output_dir, io)
       IN  /\ disk' = Write(disk, path, TextFile(result.rust_code), io)
           /\ written' = IF io \in {"ok", "write_error"}
                         THEN Append(written, path) ELSE written
           /\ IF r.ok
              THEN /\ saved_files' = Append(saved_files, r.val)
                   /\ pc' = "save_json"
                   /\ UNCHANGED outcome
              ELSE /\ RaiseTaskSolverError("save_rust_code")
                   /\ UNCHANGED saved_files
    /\ UNCHANGED <<file_name, license, result, invoked>>
    /\ UNCHANGED other_vars

\* lines 344-347
SaveResultToJson(io) ==
    /\ pc = "save_json"
    /\ LET path == OutputPath(output_dir, result.file_name, "analysis", "json")
           r == save_result_to_json(result, output_dir, io)
       IN  /\ disk' = Write(disk, path, JsonFile(ResultDict(result)), io)
           /\ written' = IF io \in {"ok", "write_error"}
                         THEN Append(written, path) ELSE written
           /\ IF r.ok
              THEN /\ saved_files' = Append(saved_files, r.val)
                   /\ pc' = "returned"
                   /\ outcome' = Ok(<<result, saved_files'>>)
              ELSE /\ RaiseTaskSolverError("save_result_to_json")
                   /\ UNCHANGED saved_files
    /\ UNCHANGED <<file_name, license, result, invoked>>
    /\ UNCHANGED other_vars

Next ==
    \/ \E fn \in FileNames : Call(fn)
    \/ \E resp \in LicenseResponses : DetectLicense(resp)
    \/ \E resp \in CopyrightResponses : ExtractCopyright(resp)
    \/ \E resp \in CountResponses : CountFunctions(resp)
    \/ \E resp \in SignatureResponses : ExtractFunctions(resp)
    \/ \E resp \in TranslationResponses : RewriteToRust(resp)
    \/ \E io \in IoOutcomes : SaveRustCode(io)
    \/ \E io \in IoOutcomes : SaveResultToJson(io)

Spec == Init /\ [][Next]_vars

(***************************************************************************)
(* data_models.analysis_models.FileAnalysisResult.validate_functions_count *)
(* : TRUE when the record passes (the validator raises ValueError          *)
(* otherwise).                                                             *)
(***************************************************************************)
validate_functions_count(r) ==
    (r.functions # PNone /\ r.function_count # PNone)
        => Len(r.functions.a) = AsInt(r.function_count)

(***************************************************************************)
(* Vocabulary of the properties.                                           *)
(***************************************************************************)
Range(seq) == {seq[i] : i \in DOMAIN seq}

\* process_file has returned to or raised at its caller
Done == pc \in {"returned", "raised"}

AnalysisPath == OutputPath(output_dir, file_name, "analysis", "json")
FunctionsPath == OutputPath(output_dir, file_name, "functions", "json")
RustPath == OutputPath(output_dir, file_name, "rust_functions", "rs")

\* the run has called the service
Invoked(service) == \E i \in DOMAIN invoked : invoked[i].service = service

\* the run ended by an exception raised while saving a file
WriteFailed ==
    /\ pc = "raised"
    /\ outcome.step \in {"save_rust_code", "save_result_to_json"}

\* the analysis JSON of this run is on disk, holding the record
AnalysisWritten ==
    /\ AnalysisPath \in Range(written)
    /\ AnalysisPath \in DOMAIN disk
    /\ disk[AnalysisPath] = JsonFile(ResultDict(result))

LicenseKeys == {"file_name", "copyright_holder", "license_name", "license_type"}

\* the function-count call was made and gave no count
CountFailed == Invoked("count_functions") /\ result.function_count = PNone

\* the function-count call gave a count
CountSucceeded == result # PNone /\ result.function_count # PNone

\* the translation call was made and gave no code
TranslationFailed == Invoked("rewrite_to_rust") /\ result.rust_code = PNone

(***************************************************************************)
(* C1.  Every run of process_file ends with the analysis JSON written,     *)
(* whatever the license branch and whatever analysis step failed, unless   *)
(* the file write itself failed.                                           *)
(* The code does not satisfy it: a failed count, extraction or translation *)
(* ends the run before line 344.                                           *)
(***************************************************************************)
C1_AnalysisAlwaysWritten ==
    Done => (WriteFailed \/ AnalysisWritten)

(***************************************************************************)
(* C2.  process_file raises to its caller only when writing the analysis   *)
(* JSON fails; no failure of an LLM-backed call makes it raise.            *)
(* The code does not satisfy it: lines 349-350 turn every exception of the *)
(* try block into TaskSolverError.                                         *)
(***************************************************************************)
C2_RaisesOnlyOnJsonWrite ==
    pc = "raised" => outcome.step = "save_result_to_json"

(***************************************************************************)
(* C3.  When the detected license_type is PROPRIETARY or UNKNOWN, no       *)
(* function counting, signature extraction or translation is invoked, the  *)
(* record has function_count, functions and rust_code unset, and the only  *)
(* artifact written is the analysis JSON.                                  *)
(***************************************************************************)
C3_OtherLicenseNoExtraction ==
    (license # PNone /\ license[1] \in {"PROPRIETARY", "UNKNOWN"}) =>
        /\ ~Invoked("count_functions")
        /\ ~Invoked("extract_functions_with_args")
        /\ ~Invoked("rewrite_to_rust")
        /\ result # PNone =>
              /\ result.function_count = PNone
              /\ result.functions = PNone
              /\ result.rust_code = PNone
        /\ Range(written) \subseteq {AnalysisPath}
        /\ pc = "returned" =>
              /\ saved_files = <<AnalysisPath>>
              /\ written = <<AnalysisPath>>
              /\ AnalysisWritten
              /\ DOMAIN disk[AnalysisPath].data = LicenseKeys

C3_Witness ==
    /\ pc = "returned"
    /\ result.license_type = "PROPRIETARY"
    /\ saved_files = <<AnalysisPath>>
    /\ AnalysisWritten

(***************************************************************************)
(* C4.  For a COPYLEFT file whose count succeeds with a value <= 2 and     *)
(* whose translation succeeds, signature extraction is not invoked, no     *)
(* functions JSON is written, and, unless a file write fails, the run      *)
(* returns having written exactly the Rust artifact and then the analysis  *)
(* JSON with license_type "COPYLEFT".                                      *)
(***************************************************************************)
\* a COPYLEFT file whose count succeeded with a value <= 2
SmallCopyleft ==
    /\ result # PNone
    /\ result.license_type = "COPYLEFT"
    /\ CountSucceeded
    /\ AsInt(result.function_count) <= 2

\* ... and whose translation succeeded, at the end of the run
C4_Case ==
    /\ Done
    /\ SmallCopyleft
    /\ result.rust_code # PNone

C4_SmallCopyleftTranslated ==
    /\ SmallCopyleft =>
          /\ ~Invoked("extract_functions_with_args")
          /\ result.functions = PNone
          /\ FunctionsPath \notin Range(written)
    /\ C4_Case =>
          /\ pc = "returned" \/ WriteFailed
          /\ pc = "returned" =>
                /\ written = <<RustPath, AnalysisPath>>
                /\ saved_files = <<RustPath, AnalysisPath>>
                /\ disk[RustPath] = TextFile(result.rust_code)
                /\ AnalysisWritten
                /\ disk[AnalysisPath].data["license_type"] = PStr("COPYLEFT")

C4_Witness ==
    /\ C4_Case
    /\ pc = "returned"
    /\ result.function_count = PInt(2)
    /\ saved_files = <<RustPath, AnalysisPath>>

(***************************************************************************)
(* C5.  For a COPYLEFT file whose count succeeds with a value > 2, a       *)
(* functions JSON is written if and only if the extracted signature list   *)
(* is non-empty, and translation is never invoked nor a translation        *)
(* artifact written.                                                       *)
(* The code does not satisfy it: process_file never writes a functions     *)
(* JSON.                                                                   *)
(***************************************************************************)
C5_FunctionsJsonIffNonEmpty ==
    (/\ pc = "returned"
     /\ result.license_type = "COPYLEFT"
     /\ CountSucceeded
     /\ AsInt(result.function_count) > 2) =>
        /\ result.functions # PNone
        /\ (FunctionsPath \in Range(written)) <=> (result.functions.a # <<>>)
        /\ ~Invoked("rewrite_to_rust")
        /\ RustPath \notin Range(written)

(***************************************************************************)
(* C6.  For a PERMISSIVE file both function counting and signature         *)
(* extraction are invoked; when both succeed the record has function_count *)
(* and functions set and a functions JSON is written if and only if the    *)
(* list is non-empty; a failure of either leaves only that field unset and *)
(* the run still finalizes.                                                *)
(* The code does not satisfy it: the PERMISSIVE branch (line 324) only     *)
(* extracts signatures.                                                    *)
(***************************************************************************)
C6_PermissiveCountsAndExtracts ==
    (Done /\ result # PNone /\ result.license_type = "PERMISSIVE") =>
        /\ Invoked("count_functions")
        /\ Invoked("extract_functions_with_args")
        /\ pc = "returned" \/ WriteFailed
        /\ (pc = "returned" /\ result.functions # PNone) =>
              ((FunctionsPath \in Range(written)) <=> (result.functions.a # <<>>))

(***************************************************************************)
(* C7.  For a COPYLEFT file whose function-count call fails, neither       *)
(* signature extraction nor translation is invoked, and the run finalizes  *)
(* without raising, writing an analysis JSON that holds only file_name,    *)
(* copyright_holder, license_name and license_type.                        *)
(* The code does not satisfy it: FunctionCounterError leaves process_file  *)
(* as TaskSolverError.                                                     *)
(***************************************************************************)
C7_CountFailureFinalizes ==
    (/\ Done
     /\ result # PNone
     /\ result.license_type = "COPYLEFT"
     /\ CountFailed) =>
        /\ ~Invoked("extract_functions_with_args")
        /\ ~Invoked("rewrite_to_rust")
        /\ pc = "returned" \/ outcome.step = "save_result_to_json"
        /\ pc = "returned" =>
              /\ AnalysisWritten
              /\ DOMAIN disk[AnalysisPath].data = LicenseKeys

(***************************************************************************)
(* C8.  For a COPYLEFT file with function count <= 2 whose translation     *)
(* call fails, no translation artifact is written, no error reaches the    *)
(* caller, and the analysis JSON is still written, with function_count.    *)
(* The code does not satisfy it: the exception of rewrite_to_rust leaves   *)
(* process_file as TaskSolverError.                                        *)
(***************************************************************************)
C8_TranslationFailureFinalizes ==
    (/\ Done
     /\ SmallCopyleft
     /\ TranslationFailed) =>
        /\ RustPath \notin Range(written)
        /\ pc = "returned" \/ outcome.step = "save_result_to_json"
        /\ pc = "returned" =>
              /\ AnalysisWritten
              /\ "function_count" \in DOMAIN disk[AnalysisPath].data

(***************************************************************************)
(* C9.  If the gateway raises on every call, the record has license_type   *)
(* UNKNOWN, license_name "Unknown License" and copyright_holder "Unknown", *)
(* and, unless the write of the analysis JSON fails, process_file returns  *)
(* without raising and the artifact list holds only the analysis JSON.     *)
(***************************************************************************)
GatewayAlwaysRaised == \A i \in DOMAIN invoked : invoked[i].gateway = "raise"

C10_WrittenRecordsPassCountCheck ==
    (AnalysisPath \in Range(written)) => validate_functions_count(result)

(***************************************************************************)
(* The services called on their own, one call at a time.                   *)
(***************************************************************************)
\* services.function_handlers.FunctionCounter._count_functions_with_llm
count_functions_with_llm(resp) ==
    IF resp.kind = "raise" THEN Err("FunctionCounterError")
    ELSE IF resp.body = NotJson THEN Err("FunctionCounterError")
    ELSE IF resp.body.t # "obj" THEN Err("FunctionCounterError")
    ELSE LET function_count == Get(resp.body.o, "function_count", PNone)
         IN  IF ValidCount(function_count) THEN Ok(function_count)
             ELSE Err("FunctionCounterError")

\* services.code_analyzer.CopyrightExtractor.extract_copyright_holder
CopyrightExtractor_extract_copyright_holder(resp) ==
    IF resp.kind = "raise" THEN PStr("Unknown")
    ELSE IF resp.body = NotJson THEN PStr("Unknown")
    ELSE IF resp.body.t # "obj" THEN PStr("Unknown")
    ELSE Get(resp.body.o, "copyright_holder", PStr("Unknown"))

\* a run of a pydantic_ai agent: it raises, or returns an output that passed
\* the validation of its output_type
AgentOutput(output) == [kind |-> "output", output |-> output]
FunctionCountInfo(function_count) == [function_count |-> function_count]
AgentCountRuns ==
    {Raise("AgentError")} \cup {AgentOutput(FunctionCountInfo(n)) : n \in 0..MaxCount}
AgentSignatureRuns ==
    {Raise("AgentError")}
    \cup {AgentOutput(a) :
            a \in SeqsUpTo({FunctionInfo(PStr("foo"), PInt(0)),
                            FunctionInfo(PStr("bar"), PInt(1))}, MaxFuncs)}

\* agents.function_analyzer.count_functions
agent_count_functions(run) ==
    IF run.kind = "raise" THEN Ok(FunctionCountInfo(0)) ELSE Ok(run.output)

\* agents.function_analyzer.extract_functions_with_args
agent_extract_functions_with_args(run) ==
    IF run.kind = "raise" THEN Ok(<<>>) ELSE Ok(run.output)

\* FunctionInfo.validate_name of data_models: the name is not blank
validate_name(value) == value.s # ""

\* the loop of FunctionExtractor.extract_functions_with_args: the checks of
\* the solver's loop, then the FunctionInfo model validates the name
RECURSIVE FunctionExtractor_ParseItems(_, _)
FunctionExtractor_ParseItems(items, functions) ==
    IF items = <<>> THEN Ok(functions)
    ELSE IF ~ValidItem(Head(items)) THEN Err("FunctionExtractorError")
    ELSE IF ~validate_name(Head(items).o.name) THEN Err("FunctionExtractorError")
    ELSE FunctionExtractor_ParseItems(Tail(items),
            Append(functions,
                   FunctionInfo(Head(items).o.name, Head(items).o.arg_count)))

\* FunctionExtractor.extract_functions_with_args of function_handlers.py,
\* from the gateway call on: every failure becomes FunctionExtractorError
FunctionExtractor_extract_functions_with_args(resp) ==
    IF resp.kind = "raise" THEN Err("FunctionExtractorError")
    ELSE IF resp.body = NotJson THEN Err("FunctionExtractorError")
    ELSE IF resp.body.t # "arr" THEN Err("FunctionExtractorError")
    ELSE FunctionExtractor_ParseItems(resp.body.a, <<>>)

(***************************************************************************)
(* The two clients (llm/anthropic_client.py, llm/openai_client.py): what   *)
(* generate_response makes of one interaction with the provider.           *)
(***************************************************************************)
TextBlock(text) == [type |-> "text", text |-> text]
ToolUseBlock == [type |-> "tool_use"]
Message(content) == [kind |-> "message", content |-> content]
Completion(choices) == [kind |-> "completion", choices |-> choices]
Choice(content) == [content |-> content]

\* messages.create raises an error of the SDK or another exception, or
\* returns a message with its content blocks
AnthropicInteractions ==
    {Raise("AnthropicError"), Raise("TypeError")}
    \cup {Message(c) : c \in {<<>>, <<ToolUseBlock>>, <<TextBlock(PStr(""))>>,
                              <<TextBlock(PStr("{}"))>>,
                              <<TextBlock(PStr("{}")), ToolUseBlock>>}}

\* chat.completions.create raises, or returns a completion with its choices
OpenAIInteractions ==
    {Raise("OpenAIError"), Raise("TypeError")}
    \cup {Completion(c) : c \in {<<>>, <<Choice(PNone)>>, <<Choice(PStr(""))>>,
                                 <<Choice(PStr("{}"))>>,
                                 <<Choice(PStr("{}")), Choice(PNone)>>}}

\* AnthropicClient.generate_response: only AnthropicError is converted
AnthropicClient_generate_response(x) ==
    IF x.kind = "raise"
    THEN (IF x.exc = "AnthropicError" THEN Err("LLMClientError") ELSE Err(x.exc))
    ELSE IF x.content = <<>> THEN Err("IndexError")           \* content[0]
    ELSE IF x.content[1].type # "text" THEN Err("AttributeError")   \* .text
    ELSE Ok(x.content[1].text)

\* OpenAIClient.generate_response: every exception is converted; "" when
\* the first choice has no content
OpenAIClient_generate_response(x) ==
    IF x.kind = "raise" THEN Err("LLMClientError")
    ELSE IF x.choices # <<>> /\ x.choices[1].content \notin {PNone, PStr("")}
    THEN Ok(x.choices[1].content)
    ELSE Ok(PStr(""))

(***************************************************************************)
(* LanguageDetector.detect_language and the two services of                *)
(* function_handlers.py that call it before their own request.             *)
(***************************************************************************)
\* a text that is no JSON, with its characters
RawText(text) == [t |-> "notjson", text |-> text]

\* the keys of _language_map
LanguageNames == {"python", "javascript", "java", "rust", "unknown"}

\* str.strip().lower() on the texts used here
Lower(text) ==
    CASE text = "Python" -> "python"
      [] text = " Rust " -> "rust"
      [] text = "COBOL" -> "cobol"
      [] OTHER -> text

\* _language_map.get(language_name, ProgrammingLanguage.UNKNOWN)
ProgrammingLanguage(language_name) ==
    CASE language_name = "python" -> "PYTHON"
      [] language_name = "javascript" -> "JAVASCRIPT"
      [] language_name = "java" -> "JAVA"
      [] language_name = "rust" -> "RUST"
      [] OTHER -> "UNKNOWN"

LanguageAnswers == {PStr("python"), PStr("Python"), PStr("COBOL"), PNone, PInt(3)}
LanguageResponses ==
    GatewayFailures \cup MalformedTexts
    \cup {Text(RawText(" Rust ")), Text(RawText("COBOL")), Text(PObj(EmptyObject))}
    \cup {Text(PObj([language |-> x])) : x \in LanguageAnswers}

\* detect_language: the language, or LanguageDetectionError
detect_language(resp) ==
    IF resp.kind = "raise" THEN Err("LanguageDetectionError")
    ELSE IF resp.body.t = "notjson"
    THEN (IF "text" \in DOMAIN resp.body /\ Lower(resp.body.text) \in LanguageNames
          THEN Ok(ProgrammingLanguage(Lower(resp.body.text)))
          ELSE Ok("UNKNOWN"))
    ELSE IF resp.body.t # "obj" THEN Err("LanguageDetectionError")   \* .get
    ELSE LET language_name == Get(resp.body.o, "language", PStr("unknown"))
         IN  IF language_name.t # "str" THEN Err("LanguageDetectionError")  \* .lower
             ELSE Ok(ProgrammingLanguage(Lower(language_name.s)))

\* FunctionCounter.count_functions: detection and request inside one try
FunctionCounter_count_functions(lang_resp, resp) ==
    IF ~detect_language(lang_resp).ok THEN Err("FunctionCounterError")
    ELSE count_functions_with_llm(resp)

\* FunctionExtractor.extract_functions_with_args, whole: detection stands
\* before the try
FunctionExtractor_detect_and_extract(lang_resp, resp) ==
    IF ~detect_language(lang_resp).ok THEN detect_language(lang_resp)
    ELSE FunctionExtractor_extract_functions_with_args(resp)

\* the answers to the signature request used with the language step
FewSignatureResponses ==
    GatewayFailures
    \cup {Text(NotJson), Text(PArr(<<>>)),
          Text(PArr(<<PObj([name |-> PStr("foo"), arg_count |-> PInt(0)])>>)),
          Text(PArr(<<PObj([name |-> PStr(""), arg_count |-> PInt(0)])>>))}

\* the second request is not made when detection raised
NotAsked == [kind |-> "not_asked"]
Asked(lang_resp, resp) == IF detect_language(lang_resp).ok THEN resp ELSE NotAsked

LangProbe(service, lang_resp, resp, out) ==
    [service |-> service, lang |-> lang_resp, resp |-> Asked(lang_resp, resp),
     out |-> out]

Probe(service, resp, out) == [service |-> service, resp |-> resp, out |-> out]

ProbeLicense(resp) ==
    /\ probe' = Probe("get_license_type", resp, Ok(get_license_type(resp)))
    /\ UNCHANGED <<pipeline_vars, saver_vars, batch_vars, rerun_vars, safety_vars>>

ProbeCopyright(resp) ==
    /\ probe' = Probe("extract_copyright_holder", resp, Ok(extract_copyright_holder(resp)))
    /\ UNCHANGED <<pipeline_vars, saver_vars, batch_vars, rerun_vars, safety_vars>>

ProbeCopyrightExtractor(resp) ==
    /\ probe' = Probe("CopyrightExtractor.extract_copyright_holder", resp,
                 Ok(CopyrightExtractor_extract_copyright_holder(resp)))
    /\ UNCHANGED <<pipeline_vars, saver_vars, batch_vars, rerun_vars, safety_vars>>

ProbeCount(resp) ==
    /\ probe' = Probe("count_functions", resp, count_functions(resp))
    /\ UNCHANGED <<pipeline_vars, saver_vars, batch_vars, rerun_vars, safety_vars>>

ProbeCountWithLlm(resp) ==
    /\ probe' = Probe("_count_functions_with_llm", resp, count_functions_with_llm(resp))
    /\ UNCHANGED <<pipeline_vars, saver_vars, batch_vars, rerun_vars, safety_vars>>

ProbeSignatures(resp) ==
    /\ probe' = Probe("extract_functions_with_args", resp, extract_functions_with_args(resp))
    /\ UNCHANGED <<pipeline_vars, saver_vars, batch_vars, rerun_vars, safety_vars>>

ProbeFunctionExtractor(resp) ==
    /\ probe' = Probe("FunctionExtractor.extract_functions_with_args", resp,
                 FunctionExtractor_extract_functions_with_args(resp))
    /\ UNCHANGED <<pipeline_vars, saver_vars, batch_vars, rerun_vars, safety_vars>>

ProbeAnthropic(x) ==
    /\ probe' = Probe("AnthropicClient.generate_response", x,
                 AnthropicClient_generate_response(x))
    /\ UNCHANGED <<pipeline_vars, saver_vars, batch_vars, rerun_vars, safety_vars>>

ProbeOpenAI(x) ==
    /\ probe' = Probe("OpenAIClient.generate_response", x,
                 OpenAIClient_generate_response(x))
    /\ UNCHANGED <<pipeline_vars, saver_vars, batch_vars, rerun_vars, safety_vars>>

ProbeFunctionCounter(lang_resp, resp) ==
    /\ probe' = LangProbe("FunctionCounter.count_functions", lang_resp, resp,
                 FunctionCounter_count_functions(lang_resp, resp))
    /\ UNCHANGED <<pipeline_vars, saver_vars, batch_vars, rerun_vars, safety_vars>>

ProbeDetectAndExtract(lang_resp, resp) ==
    /\ probe' = LangProbe("FunctionExtractor.extract_functions_with_args (whole)",
                 lang_resp, resp,
                 FunctionExtractor_detect_and_extract(lang_resp, resp))
    /\ UNCHANGED <<pipeline_vars, saver_vars, batch_vars, rerun_vars, safety_vars>>

ProbeAgentCount(run) ==
    /\ probe' = Probe("agents.count_functions", run, agent_count_functions(run))
    /\ UNCHANGED <<pipeline_vars, saver_vars, batch_vars, rerun_vars, safety_vars>>

ProbeAgentSignatures(run) ==
    /\ probe' = Probe("agents.extract_functions_with_args", run,
                 agent_extract_functions_with_args(run))
    /\ UNCHANGED <<pipeline_vars, saver_vars, batch_vars, rerun_vars, safety_vars>>

ServiceNext ==
    \/ \E resp \in LicenseResponses : ProbeLicense(resp)
    \/ \E resp \in CopyrightResponses : ProbeCopyright(resp)
    \/ \E resp \in CopyrightResponses : ProbeCopyrightExtractor(resp)
    \/ \E resp \in CountResponses : ProbeCount(resp)
    \/ \E resp \in CountResponses : ProbeCountWithLlm(resp)
    \/ \E resp \in SignatureResponses : ProbeSignatures(resp)
    \/ \E resp \in SignatureResponses : ProbeFunctionExtractor(resp)
    \/ \E x \in AnthropicInteractions : ProbeAnthropic(x)
    \/ \E x \in OpenAIInteractions : ProbeOpenAI(x)
    \/ \E lang_resp \in LanguageResponses, resp \in CountResponses :
          ProbeFunctionCounter(lang_resp, resp)
    \/ \E lang_resp \in LanguageResponses, resp \in FewSignatureResponses :
          ProbeDetectAndExtract(lang_resp, resp)
    \/ \E run \in AgentCountRuns : ProbeAgentCount(run)
    \/ \E run \in AgentSignatureRuns : ProbeAgentSignatures(run)

ServiceSpec == Init /\ [][ServiceNext]_vars

\* the answer is a text that parses to a JSON object carrying the field
HasField(resp, field) ==
    /\ resp.kind = "text"
    /\ resp.body.t = "obj"
    /\ field \in DOMAIN resp.body.o

(***************************************************************************)
(* C11.  For a COPYLEFT file whose count n > 2 differs from the length of  *)
(* the extracted list, process_file completes without error, writes the    *)
(* functions JSON holding exactly the extracted entries in order, and      *)
(* writes the analysis JSON with function_count n.                         *)
(* The code does not satisfy it: the run completes and the analysis JSON   *)
(* carries n, but no functions JSON is ever written (see C5).              *)
(***************************************************************************)
\* the functions JSON of the specification: {"file_name", "functions"}
FunctionsDict(r) ==
    [file_name |-> PStr(r.file_name),
     functions |-> PArr([i \in DOMAIN r.functions.a |->
                            PObj([name |-> r.functions.a[i].name,
                                  arg_count |-> r.functions.a[i].arg_count])])]

C11_Case ==
    /\ Done
    /\ result # PNone
    /\ result.license_type = "COPYLEFT"
    /\ CountSucceeded
    /\ AsInt(result.function_count) > 2
    /\ result.functions # PNone
    /\ result.functions.a # <<>>
    /\ Len(result.functions.a) # AsInt(result.function_count)

C11_MismatchedListStillWritten ==
    C11_Case =>
        /\ pc = "returned" \/ WriteFailed
        /\ pc = "returned" =>
              /\ AnalysisWritten
              /\ disk[AnalysisPath].data["function_count"] = result.function_count
              /\ FunctionsPath \in Range(written)
              /\ FunctionsPath \in DOMAIN disk
              /\ disk[FunctionsPath] = JsonFile(FunctionsDict(result))

(***************************************************************************)
(* C12.  get_license_type never raises and returns one of the four         *)
(* LicenseType values: PERMISSIVE, COPYLEFT or PROPRIETARY exactly when    *)
(* the answer parses to a JSON object whose license_type is that exact     *)
(* string, UNKNOWN in every other case.                                    *)
(***************************************************************************)
ClassifiedTypes == {"PERMISSIVE", "COPYLEFT", "PROPRIETARY"}

C12_LicenseTypeExact ==
    probe.service = "get_license_type" =>
        /\ probe.out.ok
        /\ probe.out.val[1] \in LicenseType
        /\ \A T \in ClassifiedTypes :
              (probe.out.val[1] = T) <=>
                  (/\ HasField(probe.resp, "license_type")
                   /\ probe.resp.body.o["license_type"] = PStr(T))

C12_Witness ==
    /\ probe.service = "get_license_type"
    /\ HasField(probe.resp, "license_type")
    /\ probe.resp.body.o["license_type"] = PStr("permissive")
    /\ probe.out.val[1] = "UNKNOWN"

(***************************************************************************)
(* C13.  Every license_name returned by get_license_type is a non-empty    *)
(* string, and it is "Unknown License" whenever the gateway call fails,    *)
(* the answer is not valid JSON or the license_name field is missing.      *)
(* The code does not satisfy it: the field of the answer is returned       *)
(* unvalidated, so "" and null come back as the license name.              *)
(***************************************************************************)
C13_LicenseNameNonEmpty ==
    probe.service = "get_license_type" =>
        LET license_name == probe.out.val[2]
        IN  /\ license_name.t = "str"
            /\ license_name.s # ""
            /\ ~HasField(probe.resp, "license_name")
                  => license_name = PStr("Unknown License")

(***************************************************************************)
(* C14.  Copyright extraction never raises and always returns a string:    *)
(* the copyright_holder of the answer when the answer is a JSON object     *)
(* carrying that field, "Unknown" when the gateway call fails, the answer  *)
(* is not valid JSON or the field is missing.                              *)
(* The code does not satisfy it: a null copyright_holder is returned as    *)
(* None.                                                                   *)
(***************************************************************************)
C14_CopyrightIsString ==
    probe.service \in {"extract_copyright_holder",
                       "CopyrightExtractor.extract_copyright_holder"} =>
        /\ probe.out.ok
        /\ probe.out.val.t = "str"
        /\ HasField(probe.resp, "copyright_holder")
              => probe.out.val = probe.resp.body.o["copyright_holder"]
        /\ ~HasField(probe.resp, "copyright_holder")
              => probe.out.val = PStr("Unknown")

(***************************************************************************)
(* C15.  _count_functions_with_llm returns n exactly when the answer is a  *)
(* JSON object whose function_count is a non-negative integer n; every     *)
(* other outcome (gateway exception, non-JSON, missing field, string,      *)
(* boolean, negative value) raises FunctionCounterError.                   *)
(* The code does not satisfy it: isinstance(True, int) holds, so a boolean *)
(* function_count is returned.                                             *)
(***************************************************************************)
IsCountAnswer(resp) ==
    /\ HasField(resp, "function_count")
    /\ resp.body.o["function_count"].t = "int"
    /\ resp.body.o["function_count"].n >= 0

C15_CountOrFunctionCounterError ==
    probe.service = "_count_functions_with_llm" =>
        IF IsCountAnswer(probe.resp)
        THEN /\ probe.out.ok
             /\ probe.out.val = probe.resp.body.o["function_count"]
        ELSE /\ ~probe.out.ok
             /\ probe.out.exc = "FunctionCounterError"

(***************************************************************************)
(* C16.  As claimed: when the gateway call fails, the function-count       *)
(* service returns 0 and the signature service returns an empty sequence,  *)
(* as normal return values.                                                *)
(* This holds of the agents (agents/function_analyzer.py) only.  Amended:  *)
(* when the call fails, agents.count_functions returns function_count 0    *)
(* and agents.extract_functions_with_args returns [], while                *)
(* FunctionCounter.count_functions raises FunctionCounterError and the     *)
(* task solver's extract_functions_with_args raises TaskSolverError.       *)
(***************************************************************************)
CountServices == {"count_functions", "agents.count_functions"}
SignatureServices ==
    {"extract_functions_with_args", "agents.extract_functions_with_args"}

WellFormedEntry(item) ==
    /\ item.t = "obj"
    /\ "name" \in DOMAIN item.o
    /\ item.o["name"].t = "str"
    /\ item.o["name"].s # ""
    /\ "arg_count" \in DOMAIN item.o
    /\ item.o["arg_count"].t = "int"
    /\ item.o["arg_count"].n >= 0

C17_SignaturesFailClosed ==
    (/\ probe.service \in {"extract_functions_with_args",
                          "FunctionExtractor.extract_functions_with_args"}
     /\ probe.resp.kind = "text"
     /\ probe.resp.body.t = "arr") =>
        LET a == probe.resp.body.a
        IN  IF \A i \in DOMAIN a : WellFormedEntry(a[i])
            THEN /\ probe.out.ok
                 /\ Len(probe.out.val) = Len(a)
                 /\ \A i \in DOMAIN a :
                       probe.out.val[i] = FunctionInfo(a[i].o["name"], a[i].o["arg_count"])
            ELSE ~probe.out.ok

(***************************************************************************)
(* C18.  The analysis JSON always holds file_name, copyright_holder,       *)
(* license_name and license_type (one of the four enum names); it holds    *)
(* function_count if and only if function_count is set and functions if    *)
(* and only if functions is set; no optional key is null and the           *)
(* translated code is never included.                                      *)
(***************************************************************************)
OptionalKeys == {"function_count", "functions"}

C18_AnalysisJsonShape ==
    (/\ result # PNone
     /\ AnalysisPath \in DOMAIN disk
     /\ disk[AnalysisPath].t = "json") =>
        LET data == disk[AnalysisPath].data
        IN  /\ LicenseKeys \subseteq DOMAIN data
            /\ DOMAIN data \subseteq LicenseKeys \cup OptionalKeys
            /\ data["license_type"] \in {PStr(T) : T \in LicenseType}
            /\ ("function_count" \in DOMAIN data) <=> (result.function_count # PNone)
            /\ ("functions" \in DOMAIN data) <=> (result.functions # PNone)
            /\ \A k \in DOMAIN data \cap OptionalKeys : data[k] # PNone

C18_Witness ==
    /\ pc = "returned"
    /\ result.function_count # PNone
    /\ result.functions # PNone
    /\ result.functions.a # <<>>
    /\ DOMAIN disk[AnalysisPath].data = LicenseKeys \cup OptionalKeys

(***************************************************************************)
(* ResultSaver (services/result_handler.py), its three operations called   *)
(* one after another on a file system that keeps what they wrote.          *)
(***************************************************************************)
OutputDirs == {"results"}
SaverFileNames == {<<"1", "py">>, <<"README">>}
SaverSuffixes == {"analysis", "functions"}
ResultDatas == {PObj([file_name |-> PStr("1.py")])}
RustCodes == {"fn main() {}"}

\* Path(output_dir).mkdir(parents=True, exist_ok=True), then open and write
ResultSaverWrite(fsys, dir, path, content, io) ==
    IF io = "mkdir_error" THEN fsys
    ELSE [dirs |-> fsys.dirs \cup {dir},
          files |-> Write(fsys.files, path, content, io)]

\* save_to_json: mkdir (line 36) stands before the try of lines 42-47
ResultSaver_save_to_json(dir, fn, suffix, io) ==
    IF io = "mkdir_error" THEN Err("OSError")
    ELSE IF io = "ok" THEN Ok(OutputPath(dir, fn, suffix, "json"))
    ELSE Err("ResultHandlerError")

\* save_text_file: mkdir (line 67) stands before the try of lines 73-78
ResultSaver_save_text_file(dir, fn, suffix, extension, io) ==
    IF io = "mkdir_error" THEN Err("OSError")
    ELSE IF io = "ok" THEN Ok(OutputPath(dir, fn, suffix, extension))
    ELSE Err("ResultHandlerError")

\* save_rust_code delegates to save_text_file
ResultSaver_save_rust_code(fn, dir, io) ==
    ResultSaver_save_text_file(dir, fn, "rust_functions", "rs", io)

SaveCall(op, dir, path, content, io, out) ==
    [op |-> op, existed |-> dir \in saver_fs.dirs, path |-> path,
     content |-> content, io |-> io, out |-> out]

\* mkdir of an existing directory does nothing and cannot fail
MkdirCan(dir, io) == io = "mkdir_error" => dir \notin saver_fs.dirs

SaveToJson(result_data, dir, fn, suffix, io) ==
    LET path == OutputPath(dir, fn, suffix, "json")
    IN  /\ MkdirCan(dir, io)
        /\ saver_fs' = ResultSaverWrite(saver_fs, dir, path, JsonFile(result_data), io)
        /\ saved' = SaveCall("save_to_json", dir, path, JsonFile(result_data), io,
                             ResultSaver_save_to_json(dir, fn, suffix, io))
        /\ UNCHANGED <<pipeline_vars, service_vars, batch_vars, rerun_vars, safety_vars>>

SaveTextFile(content, dir, fn, suffix, extension, io) ==
    LET path == OutputPath(dir, fn, suffix, extension)
    IN  /\ MkdirCan(dir, io)
        /\ saver_fs' = ResultSaverWrite(saver_fs, dir, path, TextFile(content), io)
        /\ saved' = SaveCall("save_text_file", dir, path, TextFile(content), io,
                             ResultSaver_save_text_file(dir, fn, suffix, extension, io))
        /\ UNCHANGED <<pipeline_vars, service_vars, batch_vars, rerun_vars, safety_vars>>

ResultSaverSaveRustCode(fn, rust_code, dir, io) ==
    LET path == OutputPath(dir, fn, "rust_functions", "rs")
    IN  /\ MkdirCan(dir, io)
        /\ saver_fs' = ResultSaverWrite(saver_fs, dir, path, TextFile(rust_code), io)
        /\ saved' = SaveCall("save_rust_code", dir, path, TextFile(rust_code), io,
                             ResultSaver_save_rust_code(fn, dir, io))
        /\ UNCHANGED <<pipeline_vars, service_vars, batch_vars, rerun_vars, safety_vars>>

SaverNext ==
    \E dir \in OutputDirs, fn \in SaverFileNames, io \in IoOutcomes :
        \/ \E result_data \in ResultDatas, suffix \in SaverSuffixes :
              SaveToJson(result_data, dir, fn, suffix, io)
        \/ \E content \in RustCodes :
              SaveTextFile(content, dir, fn, "rust_functions", "rs", io)
        \/ \E rust_code \in RustCodes :
              ResultSaverSaveRustCode(fn, rust_code, dir, io)

SaverSpec == Init /\ [][SaverNext]_vars

(***************************************************************************)
(* C19.  Every failure of a ResultSaver operation, a failure to create the *)
(* output directory included, reaches the caller as ResultHandlerError and *)
(* as nothing else; a save into an existing output directory succeeds just *)
(* as a save into an absent one.                                           *)
(* The code does not satisfy it: Path.mkdir is called before the try, so   *)
(* its OSError reaches the caller as it is.                                *)
(***************************************************************************)
C19_OnlyResultHandlerError ==
    saved.op # "none" =>
        /\ saved.out.ok \/ saved.out.exc = "ResultHandlerError"
        /\ saved.io = "ok" =>
              /\ saved.out.ok
              /\ saved.out.val = saved.path
              /\ saver_fs.files[saved.path] = saved.content

(***************************************************************************)
(* The batch runner (main_async.py): main, process_files_async and one     *)
(* process_file_async task per file, the tasks interleaving at their       *)
(* awaits.                                                                 *)
(***************************************************************************)
\* the parameters of process_file and the arguments partial() binds to it
ProcessFileParams == 3
PartialArgs == 4

Providers == {"anthropic", "openai", "mistral"}
DirEntries == FileNames \cup {<<"3", "py">>}
\* the data directory: missing, or a directory with some of the entries
DataDirs ==
    {[exists |-> FALSE, entries |-> {}]}
    \cup {[exists |-> TRUE, entries |-> S] : S \in SUBSET DirEntries}

\* get_llm_client: the client, or ValueError for an unknown provider or a
\* missing API key
get_llm_client(provider, api_key) ==
    IF provider \notin {"anthropic", "openai"} THEN Err("ValueError")
    ELSE IF ~api_key THEN Err("ValueError")
    ELSE Ok(provider)

\* data_path.glob("*.py")
Glob(dir) == {f \in dir.entries : Len(f) > 1 /\ f[Len(f)] = "py"}

\* the lists glob can return: the matching files in any order
Listings(files) ==
    {l \in [1..Cardinality(files) -> files] : \A i, j \in DOMAIN l : l[i] = l[j] => i = j}

TaskIds == 1..Cardinality(DirEntries)

\* the directories main is asked to write to
CallerDirs == {"results", "out"}

\* the coroutine process_file_async(llm_client, file_path, output_dir)
Task(file_path, out_dir) ==
    [file_path |-> file_path, output_dir |-> out_dir, pc |-> "created", out |-> PNone]

\* what process_file can return or raise for a file
ProcessFileOutcomes(fn) ==
    {Err("TaskSolverError"),
     Ok(<<fn, <<OutputPath(output_dir, fn, "analysis", "json")>>>>),
     Ok(<<fn, <<OutputPath(output_dir, fn, "rust_functions", "rs"),
               OutputPath(output_dir, fn, "analysis", "json")>>>>)}

\* partial(process_file, llm_client, file_name, file_content, output_dir)()
CallProcessFile(r) ==
    IF PartialArgs # ProcessFileParams THEN Err("TypeError") ELSE r

\* sum(len(saved_files) for _, saved_files in results)
RECURSIVE SumSaved(_)
SumSaved(rs) ==
    IF rs = <<>> THEN Ok(0)
    ELSE IF ~Head(rs).ok THEN Err("TypeError")      \* an exception does not unpack
    ELSE LET rest == SumSaved(Tail(rs))
         IN  IF rest.ok THEN Ok(Len(Head(rs).val[2]) + rest.val) ELSE rest

Summary(rs) ==
    LET num_files_saved == SumSaved(rs)
    IN  IF num_files_saved.ok
        THEN Ok([processed |-> Len(rs), saved |-> num_files_saved.val])
        ELSE num_files_saved

\* main up to the await of gather: the client, the listing, the tasks
Main(provider, api_key, dir, out_dir) ==
    /\ main_pc = "idle"
    /\ data_dir' = dir
    /\ IF ~get_llm_client(provider, api_key).ok
       THEN /\ main_pc' = "raised"
            /\ main_outcome' = get_llm_client(provider, api_key)
            /\ UNCHANGED <<tasks, results>>
       ELSE IF ~dir.exists
       THEN /\ main_pc' = "raised"
            /\ main_outcome' = Err("ValueError")
            /\ UNCHANGED <<tasks, results>>
       ELSE IF Glob(dir) = {}
       THEN /\ main_pc' = "returned"
            /\ results' = <<>>
            /\ main_outcome' = Summary(<<>>)
            /\ UNCHANGED tasks
       ELSE /\ \E files \in Listings(Glob(dir)) :
                  tasks' = [i \in DOMAIN files |-> Task(files[i], out_dir)]
            /\ main_pc' = "gathering"
            /\ UNCHANGED <<results, main_outcome>>
    /\ UNCHANGED <<pipeline_vars, service_vars, saver_vars, rerun_vars, safety_vars>>

\* process_file_async, lines 27-34: read the file, re-raise what fails
ReadFile(i, io) ==
    /\ main_pc = "gathering"
    /\ i \in DOMAIN tasks
    /\ tasks[i].pc = "created"
    /\ tasks' = [tasks EXCEPT ![i] =
                    IF io = "ok" THEN [@ EXCEPT !.pc = "read"]
                    ELSE [@ EXCEPT !.pc = "done", !.out = Err("OSError")]]
    /\ UNCHANGED <<main_pc, data_dir, results, main_outcome>>
    /\ UNCHANGED <<pipeline_vars, service_vars, saver_vars, rerun_vars, safety_vars>>

\* process_file_async, lines 37-41: process_file in an executor of its own
ProcessFile(i, fn, r) ==
    /\ main_pc = "gathering"
    /\ i \in DOMAIN tasks
    /\ fn = tasks[i].file_path
    /\ tasks[i].pc = "read"
    /\ tasks' = [tasks EXCEPT ![i] = [@ EXCEPT !.pc = "done", !.out = CallProcessFile(r)]]
    /\ UNCHANGED <<main_pc, data_dir, results, main_outcome>>
    /\ UNCHANGED <<pipeline_vars, service_vars, saver_vars, rerun_vars, safety_vars>>

\* asyncio.gather(*tasks, return_exceptions=True) once every task is done
Gather ==
    /\ main_pc = "gathering"
    /\ \A i \in DOMAIN tasks : tasks[i].pc = "done"
    /\ results' = [i \in DOMAIN tasks |-> tasks[i].out]
    /\ main_pc' = "gathered"
    /\ UNCHANGED <<data_dir, tasks, main_outcome>>
    /\ UNCHANGED <<pipeline_vars, service_vars, saver_vars, rerun_vars, safety_vars>>

\* main, lines 81-85: the sum over the results, its exception re-raised
Summarise ==
    /\ main_pc = "gathered"
    /\ main_outcome' = Summary(results)
    /\ main_pc' = IF Summary(results).ok THEN "returned" ELSE "raised"
    /\ UNCHANGED <<data_dir, tasks, results>>
    /\ UNCHANGED <<pipeline_vars, service_vars, saver_vars, rerun_vars, safety_vars>>

BatchNext ==
    \/ \E provider \in Providers, api_key \in BOOLEAN, dir \in DataDirs,
          out_dir \in CallerDirs :
          Main(provider, api_key, dir, out_dir)
    \/ \E i \in TaskIds, io \in {"ok", "read_error"} : ReadFile(i, io)
    \/ \E i \in TaskIds, fn \in DirEntries :
          \E r \in ProcessFileOutcomes(fn) : ProcessFile(i, fn, r)
    \/ Gather
    \/ Summarise

BatchSpec == Init /\ [][BatchNext]_vars

(***************************************************************************)
(* C20.  In a batch run the failure of one file never keeps another file   *)
(* from being processed to completion, and the batch entry point completes *)
(* without raising: it delivers the results of the files that succeeded    *)
(* and the number of those that failed.                                    *)
(* The code does not satisfy it: every task runs to its end, but main      *)
(* raises as soon as one of the gathered results is an exception, and      *)
(* every process_file call of the batch raises TypeError.                  *)
(***************************************************************************)
Failed == {i \in DOMAIN tasks : ~tasks[i].out.ok}

C20_BatchSurvivesFailures ==
    (tasks # <<>> /\ main_pc \in {"gathered", "returned", "raised"}) =>
        /\ \A i \in DOMAIN tasks : tasks[i].pc = "done"
        /\ main_pc # "raised"
        /\ main_pc = "returned" =>
              /\ "failed" \in DOMAIN main_outcome.val
              /\ main_outcome.val.failed = Cardinality(Failed)

(***************************************************************************)
(* C25.  A translation that produced no usable code is never persisted:    *)
(* a failed or empty translation is signalled as an error and no           *)
(* translation artifact is written, so every translation artifact on disk  *)
(* has non-empty content.                                                  *)
(* The code does not satisfy it: an empty text returned by the client is   *)
(* taken as the translation and written to the .rs file.                   *)
(***************************************************************************)
C25_EmptyTranslationNeverPersisted ==
    /\ (result # PNone /\ result.rust_code # PNone) => result.rust_code # PStr("")
    /\ (RustPath \in DOMAIN disk /\ disk[RustPath].t = "text")
          => disk[RustPath].text # PStr("")

(***************************************************************************)
(* C29.  process_file is all-or-nothing: when it raises, no artifact of    *)
(* the run has been written (no translation artifact is left when the      *)
(* analysis JSON write fails); when it returns, the returned list names    *)
(* exactly the artifacts written, the analysis JSON last.                  *)
(* The code does not satisfy it: the .rs file written at line 340 stays on *)
(* disk when save_result_to_json fails, and a failed write leaves the      *)
(* truncated file behind.                                                  *)
(***************************************************************************)
C29_AllOrNothing ==
    /\ pc = "raised" => (written = <<>> /\ disk = NoFiles)
    /\ pc = "returned" =>
          /\ saved_files = written
          /\ DOMAIN disk = Range(saved_files)
          /\ saved_files[Len(saved_files)] = AnalysisPath

(***************************************************************************)
(* C21.  At every moment of a batch run the number of file pipelines       *)
(* executing at once is at most a configured limit N that does not depend  *)
(* on the number of input files.  A limit that does not grow with the      *)
(* batch is, for the batches run here, a number below the largest batch.   *)
(* The code does not satisfy it: it has no such setting; gather starts a   *)
(* task for every file and every task submits process_file to an executor  *)
(* of its own, so as many pipelines are in flight as there are files.      *)
(***************************************************************************)
\* the tasks whose process_file is submitted to an executor and not done
Executing == {i \in DOMAIN tasks : tasks[i].pc = "read"}

LargestBatch == Cardinality(Glob([exists |-> TRUE, entries |-> DirEntries]))

C21_ConcurrencyLimited ==
    Cardinality(Executing) < LargestBatch

(***************************************************************************)
(* C24.  process_file accepts the output directory as its fourth argument, *)
(* as the batch runner passes it, and writes every artifact there: every   *)
(* path of the returned list lies in the caller's directory.               *)
(* The code does not satisfy it: process_file takes three parameters and   *)
(* writes to "results"; the call with four arguments raises TypeError.     *)
(***************************************************************************)
C24_CallerDirectoryUsed ==
    \A i \in DOMAIN tasks :
        tasks[i].pc = "done" =>
            IF tasks[i].out.ok
            THEN \A k \in DOMAIN tasks[i].out.val[2] :
                    tasks[i].out.val[2][k].dir = tasks[i].output_dir
            ELSE tasks[i].out.exc \in {"OSError", "TaskSolverError"}

(***************************************************************************)
(* C22.  The two clients are interchangeable on failure: for every failed  *)
(* interaction with the provider (an exception of the provider call, or an *)
(* answer without usable content) generate_response raises LLMClientError  *)
(* and nothing else, and returns no value.                                 *)
(* The code does not satisfy it: AnthropicClient converts AnthropicError   *)
(* only and lets the IndexError of an empty content through; OpenAIClient  *)
(* returns "" for an answer without content.                               *)
(***************************************************************************)
\* the provider answered with a text to use
Usable(x) ==
    \/ /\ x.kind = "message"
       /\ x.content # <<>>
       /\ x.content[1].type = "text"
       /\ x.content[1].text # PStr("")
    \/ /\ x.kind = "completion"
       /\ x.choices # <<>>
       /\ x.choices[1].content \notin {PNone, PStr("")}

Clients == {"AnthropicClient.generate_response", "OpenAIClient.generate_response"}

C22_ClientsFailAlike ==
    (probe.service \in Clients /\ ~Usable(probe.resp)) =>
        /\ ~probe.out.ok
        /\ probe.out.exc = "LLMClientError"

(***************************************************************************)
(* C27.  The language-aware function services raise their declared error   *)
(* only: every failure in FunctionCounter.count_functions, a failure of    *)
(* language detection included, is a FunctionCounterError, and every       *)
(* failure in FunctionExtractor.extract_functions_with_args, a failure of  *)
(* language detection included, is a FunctionExtractorError.               *)
(* The code does not satisfy it: FunctionExtractor calls detect_language   *)
(* before its try, so LanguageDetectionError reaches the caller.           *)
(***************************************************************************)
C27_DeclaredErrorOnly ==
    /\ probe.service = "FunctionCounter.count_functions"
          => (probe.out.ok \/ probe.out.exc = "FunctionCounterError")
    /\ probe.service = "FunctionExtractor.extract_functions_with_args (whole)"
          => (probe.out.ok \/ probe.out.exc = "FunctionExtractorError")

(***************************************************************************)
(* The safety cache (agents/safety_checker.py): check_content_safety       *)
(* called from several threads, each call a sequence of steps on the       *)
(* shared dictionary _safety_results.                                      *)
(***************************************************************************)
\* the contents checked; the last two have the same MD5 digest
Contents == {"print('a')", "print('b')", "print('b') # collides"}

\* hashlib.md5(content.encode()).hexdigest()
Hash(content) ==
    CASE content = "print('a')" -> "md5-a"
      [] content = "print('b')" -> "md5-b"
      [] content = "print('b') # collides" -> "md5-b"

ContentSafetyInfo(is_safe, reason, severity) ==
    [is_safe |-> is_safe, reason |-> reason, severity |-> severity]

\* the ContentSafetyInfo of line 145
FailureInfo == ContentSafetyInfo(FALSE, "Safety check failed due to an error", "medium")

\* safety_checker_agent.run_sync: a verdict, or an exception
SafetyRuns ==
    {Raise("AgentError"),
     AgentOutput(ContentSafetyInfo(TRUE, "", "none")),
     AgentOutput(ContentSafetyInfo(FALSE, "prompt injection", "high"))}

\* the verdict the cache holds for the content, PNone when it holds none
Cached(content) ==
    IF Hash(content) \in DOMAIN safety_results
    THEN safety_results[Hash(content)] ELSE PNone

\* line 126: the call starts; seen remembers what the cache held then
StartCheck(t, content) ==
    /\ calls[t].pc \in {"idle", "returned"}
    /\ ncalls < MaxCalls
    /\ ncalls' = ncalls + 1
    /\ calls' = [calls EXCEPT ![t] =
                    [op |-> "check_content_safety", content |-> content,
                     pc |-> "lookup", seen |-> Cached(content), ran |-> FALSE,
                     verdict |-> PNone, out |-> PNone]]
    /\ UNCHANGED <<safety_results, produced>>
    /\ UNCHANGED <<pipeline_vars, service_vars, saver_vars, batch_vars, rerun_vars>>

\* line 129: content_hash in _safety_results
LookUp(t) ==
    /\ calls[t].pc = "lookup"
    /\ calls' = [calls EXCEPT ![t].pc =
                    IF Hash(calls[t].content) \in DOMAIN safety_results
                    THEN "cached" ELSE "agent"]
    /\ UNCHANGED <<safety_results, produced, ncalls>>
    /\ UNCHANGED <<pipeline_vars, service_vars, saver_vars, batch_vars, rerun_vars>>

\* lines 130-131: log, then return _safety_results[content_hash]
ReturnCached(t) ==
    /\ calls[t].pc = "cached"
    /\ calls' = [calls EXCEPT ![t].pc = "returned",
                              ![t].out = safety_results[Hash(calls[t].content)]]
    /\ UNCHANGED <<safety_results, produced, ncalls>>
    /\ UNCHANGED <<pipeline_vars, service_vars, saver_vars, batch_vars, rerun_vars>>

\* lines 135-136 and 141-145: the agent runs; its verdict, or FailureInfo
RunSafetyAgent(t, run) ==
    /\ calls[t].pc = "agent"
    /\ calls' = [calls EXCEPT ![t].pc = "store", ![t].ran = TRUE,
                              ![t].verdict = IF run.kind = "raise" THEN FailureInfo
                                             ELSE run.output]
    /\ produced' = IF run.kind = "raise" THEN produced
                   ELSE produced \cup {<<calls[t].content, run.output>>}
    /\ UNCHANGED <<safety_results, ncalls>>
    /\ UNCHANGED <<pipeline_vars, service_vars, saver_vars, batch_vars, rerun_vars>>

\* lines 139-140 and 147-148: store under the hash, return
StoreVerdict(t) ==
    /\ calls[t].pc = "store"
    /\ safety_results' =
          [h \in DOMAIN safety_results \cup {Hash(calls[t].content)} |->
              IF h = Hash(calls[t].content) THEN calls[t].verdict
              ELSE safety_results[h]]
    /\ calls' = [calls EXCEPT ![t].pc = "returned", ![t].out = calls[t].verdict]
    /\ UNCHANGED <<produced, ncalls>>
    /\ UNCHANGED <<pipeline_vars, service_vars, saver_vars, batch_vars, rerun_vars>>

SafetyNext ==
    \E t \in Threads :
        \/ \E content \in Contents : StartCheck(t, content)
        \/ LookUp(t)
        \/ ReturnCached(t)
        \/ \E run \in SafetyRuns : RunSafetyAgent(t, run)
        \/ StoreVerdict(t)

SafetySpec == Init /\ [][SafetyNext]_vars

(***************************************************************************)
(* C26.  Under any interleaving of concurrent check_content_safety calls   *)
(* the cache holds at most one verdict per content hash, and a call that   *)
(* starts after a verdict for its content has been stored returns that     *)
(* stored verdict without invoking the safety agent again.                 *)
(* The code does not satisfy it: the cache is read and written without a   *)
(* lock, so a call that missed earlier replaces the verdict between the    *)
(* membership test and the read of a later call, which then returns the    *)
(* new verdict.                                                            *)
(***************************************************************************)
C26_CacheHitReturnsStored ==
    \A t \in Threads :
        (/\ calls[t].pc = "returned"
         /\ calls[t].seen # PNone) =>
            /\ ~calls[t].ran
            /\ calls[t].out = calls[t].seen

(***************************************************************************)
(* C30.  Every verdict stored in the safety cache is one the safety agent  *)
(* produced for that content: a transient failure of the agent never       *)
(* leaves a stored is_safe=False verdict, so a later check of the content  *)
(* invokes the agent again.                                                *)
(* The code does not satisfy it: the except branch stores its own          *)
(* is_safe=False verdict (line 147) and every later call returns it.       *)
(***************************************************************************)
C30_StoredVerdictsWereProduced ==
    \A h \in DOMAIN safety_results :
        \E content \in Contents :
            /\ Hash(content) = h
            /\ <<content, safety_results[h]>> \in produced

(***************************************************************************)
(* Two successive process_file calls of one process against a              *)
(* deterministic gateway stub: the stub fixes, per file, the answer it      *)
(* gives to each request; the output directory is kept between the calls.   *)
(***************************************************************************)
\* the files handed to the two calls: "1.py" and "1.txt" have the same stem
RerunFileNames == {<<"1", "py">>, <<"1", "txt">>, <<"2", "py">>}

\* the stub's answers to the five requests of process_file
Stubs ==
    [license :
        {Text(PObj([license_type |-> PStr("PERMISSIVE"), license_name |-> PStr("")])),
         Text(PObj([license_type |-> PStr("COPYLEFT"),
                    license_name |-> PStr("GNU GPL v3")])),
         Raise("LLMClientError")},
     copyright : {Text(PObj([copyright_holder |-> PStr("Elon Musk")]))},
     count : {Text(PObj([function_count |-> PInt(2)])),
              Text(PObj([function_count |-> PInt(3)]))},
     signatures :
        {Text(PArr(<<PObj([name |-> PStr("foo"), arg_count |-> PInt(0)]),
                     PObj([name |-> PStr("bar"), arg_count |-> PInt(1)])>>)),
         Raise("LLMClientError")},
     translation : {Text(PStr("fn foo() {} fn bar() {}")), Raise("LLMClientError")}]

\* the stub is set up before the first call
ChooseStub(st) ==
    /\ pc = "idle"
    /\ stub = PNone
    /\ stub' = st
    /\ UNCHANGED first
    /\ UNCHANGED <<pipeline_vars, service_vars, saver_vars, batch_vars, safety_vars>>

\* what the first call left behind
FirstRun ==
    [file_name |-> file_name, pc |-> pc, outcome |-> outcome,
     saved_files |-> saved_files, written |-> written, disk |-> disk]

\* the second call process_file(llm_client, fn, file_content): fresh locals
\* (lines 299-300), the files of the first call still in the directory; the
\* stub answers as before for the same file, as st for another file
CallAgain(fn, st) ==
    /\ pc \in {"returned", "raised"}
    /\ first = PNone
    /\ stub # PNone
    /\ fn = file_name => st = stub
    /\ first' = FirstRun
    /\ stub' = st
    /\ file_name' = fn
    /\ pc' = "license"
    /\ license' = PNone
    /\ result' = PNone
    /\ saved_files' = <<>>
    /\ invoked' = <<>>
    /\ written' = <<>>
    /\ outcome' = PNone
    /\ UNCHANGED disk
    /\ UNCHANGED <<service_vars, saver_vars, batch_vars, safety_vars>>

RerunNext ==
    \/ \E st \in Stubs : ChooseStub(st)
    \/ \E fn \in RerunFileNames : stub # PNone /\ Call(fn)
    \/ stub # PNone /\ DetectLicense(stub.license)
    \/ stub # PNone /\ ExtractCopyright(stub.copyright)
    \/ stub # PNone /\ CountFunctions(stub.count)
    \/ stub # PNone /\ ExtractFunctions(stub.signatures)
    \/ stub # PNone /\ RewriteToRust(stub.translation)
    \/ \E io \in IoOutcomes : SaveRustCode(io)
    \/ \E io \in IoOutcomes : SaveResultToJson(io)
    \/ \E fn \in RerunFileNames, st \in Stubs : CallAgain(fn, st)

RerunSpec == Init /\ [][RerunNext]_vars

\* both calls were made on the same file and both returned
SameFileTwice ==
    /\ first # PNone
    /\ first.pc = "returned"
    /\ pc = "returned"
    /\ first.file_name = file_name

(***************************************************************************)
(* C23.  Running process_file twice on the same file against a             *)
(* deterministic stub returns the same artifact paths and leaves JSON       *)
(* artifacts with identical content: the second run overwrites the files    *)
(* of the first and neither appends to them nor adds files beside them.     *)
(***************************************************************************)
C23_RerunIdempotent ==
    SameFileTwice =>
        /\ saved_files = first.saved_files
        /\ disk = first.disk
        /\ DOMAIN disk = Range(saved_files)
        /\ disk[AnalysisPath] = JsonFile(ResultDict(result))

\* a second run that returned the translation and the analysis paths again
C23_Witness ==
    /\ SameFileTwice
    /\ Len(saved_files) = 2
    /\ RustPath \in DOMAIN disk

(***************************************************************************)
(* C28.  Runs for two distinct input file names never write the same       *)
(* artifact path.                                                          *)
(* The code does not satisfy it: the artifact names are built from the     *)
(* stem of the file name alone, so "1.py" and "1.txt" share their paths    *)
(* and the second run overwrites the artifacts of the first.               *)
(***************************************************************************)
C28_DistinctNamesDistinctPaths ==
    (first # PNone /\ first.file_name # file_name) =>
        Range(written) \cap Range(first.written) = {}
====
